---- MODULE Spec2Model ----
(***************************************************************************)
(* A state-machine model of tracerouter.py: main() and the functions it    *)
(* calls.  One variable per program variable the control flow depends on,  *)
(* plus the observable effects of a run: compute API calls issued,         *)
(* external processes invoked and running, lines written to stdout by the  *)
(* latest step, the uncaught exception (if any) and the exit code.         *)
(*                                                                         *)
(* Strings that the program inspects (instance names, patterns, printed    *)
(* lines) are sequences of one-character strings.                          *)
(***************************************************************************)
EXTENDS Integers, Sequences, FiniteSets

VARIABLES
  pc,              \* position of main() (the statement about to run)
  args,            \* result of parse_args()
  current_project, \* main: current_project
  zones,           \* the cloud: what zones.list answers for the project
  zone_names,      \* obtain_instances: zone_names
  regex,           \* obtain_instances: regex (the compiled pattern)
  zi,              \* obtain_instances: position of the for loop in zone_names
  instances,       \* obtain_instances: instances (latest list_instances result)
  zone_instances,  \* obtain_instances / main: the dict zone name -> instances
  pending,         \* main: keys of zone_instances the for loop has yet to visit
  zone_name,       \* main: zone_name
  ii,              \* main: position of the inner for loop in the zone's list
  external_ip,     \* traceroute_instance: external_ip
  self_ip,         \* traceroute_instance: self_ip
  apiCalls,        \* compute API requests executed so far, in order
  procs,           \* external processes the run invoked (Popen/check_output), in order
  running,         \* external processes started and not yet run to completion
  printed,         \* lines written to stdout by the latest step
  failures,        \* proc_name of every failure print_subprocess has reported
  error,           \* the uncaught exception that ended the run, and where
  exitCode         \* process exit status; NoExit while running

vars == <<pc, args, current_project, zones, zone_names, regex, zi, instances,
          zone_instances, pending, zone_name, ii, external_ip, self_ip,
          apiCalls, procs, running, printed, failures, error, exitCode>>

----------------------------------------------------------------------------
(* Bounds of the model *)

\* zones in one zones.list answer
MaxZones == 2

\* instances the project holds (all instances.list answers of a run together)
MaxInstances == 2

----------------------------------------------------------------------------
(* Values *)

None == "None"
NoExit == 0 - 1
NoError == [exc |-> "none", at |-> "none"]

\* the name of the i-th zone of a zones.list answer
ZoneNameAt(i) == (<<"z1", "z2", "z3", "z4">>)[i]

ZoneStatuses == {"UP", "DOWN"}
ZoneKinds == {"compute#zone", "compute#region"}

InstanceStatuses == {"RUNNING", "TERMINATED"}
InstanceKinds == {"compute#instance", "compute#disk"}

\* the public address of an instance and of the operator's host
NatAddress == <<"9">>
HostAddress == <<"7">>

\* networkInterfaces of an instance: with a natIP, with an access config
\* that has no natIP, with no access config, with no interface
WithNatIP == <<[accessConfigs |-> <<[type |-> "ONE_TO_ONE_NAT", natIP |-> NatAddress]>>]>>
WithoutNatIP == <<[accessConfigs |-> <<[type |-> "ONE_TO_ONE_NAT"]>>]>>
NoAccessConfig == <<[accessConfigs |-> <<>>]>>
NoInterface == <<>>

InterfaceShapes == {WithNatIP, WithoutNatIP, NoAccessConfig, NoInterface}

Instance(n, s, k, nis) ==
  [name |-> n, status |-> s, kind |-> k, networkInterfaces |-> nis]

----------------------------------------------------------------------------
(* Regular expressions: re.compile and regex.match on the dialect          *)
(* literal, ".", postfix "*", "^" and "$".  Parentheses occur only in      *)
(* patterns that re.compile rejects (they are not balanced).               *)

Literals == {"a", "b"}

RECURSIVE Balance(_, _, _)
\* depth of open parentheses after reading p[k..]; -1 once a ")" closes nothing
Balance(p, k, depth) ==
  IF k > Len(p) THEN depth
  ELSE IF p[k] = "(" THEN Balance(p, k + 1, depth + 1)
  ELSE IF p[k] = ")" THEN (IF depth = 0 THEN 0 - 1 ELSE Balance(p, k + 1, depth - 1))
  ELSE Balance(p, k + 1, depth)

IsAtom(c) == c \in Literals \cup {"."}

\* sre_parse raises re.error: unbalanced parenthesis, nothing to repeat,
\* multiple repeat
ValidPattern(p) ==
  /\ Balance(p, 1, 0) = 0
  /\ \A k \in 1..Len(p) : p[k] = "*" => (k > 1 /\ IsAtom(p[k - 1]))

RECURSIVE ParseItems(_, _)
\* the items of a pattern without groups: an atom (starred or not) or an anchor
ParseItems(p, k) ==
  IF k > Len(p) THEN <<>>
  ELSE IF k < Len(p) /\ p[k + 1] = "*"
       THEN <<[atom |-> p[k], star |-> TRUE]>> \o ParseItems(p, k + 2)
       ELSE <<[atom |-> p[k], star |-> FALSE]>> \o ParseItems(p, k + 1)

\* re.compile(match_pattern): the compiled pattern, or the error
Compile(p) ==
  IF ValidPattern(p) THEN [ok |-> TRUE, items |-> ParseItems(p, 1)]
  ELSE [ok |-> FALSE, items |-> <<>>]

AtomMatches(a, c) == a = "." \/ a = c

RECURSIVE RunLength(_, _, _)
\* how many characters from position i on the atom matches in a row
RunLength(a, s, i) ==
  IF i <= Len(s) /\ AtomMatches(a, s[i]) THEN 1 + RunLength(a, s, i + 1) ELSE 0

RECURSIVE MatchAt(_, _, _, _)
\* the backtracking matcher: items[k..] match s from position i on
MatchAt(items, k, s, i) ==
  IF k > Len(items) THEN TRUE
  ELSE LET it == items[k] IN
    IF it.atom = "^" THEN i = 1 /\ MatchAt(items, k + 1, s, i)
    ELSE IF it.atom = "$" THEN i = Len(s) + 1 /\ MatchAt(items, k + 1, s, i)
    ELSE IF it.star
      THEN \E n \in 0..RunLength(it.atom, s, i) : MatchAt(items, k + 1, s, i + n)
      ELSE /\ i <= Len(s)
           /\ AtomMatches(it.atom, s[i])
           /\ MatchAt(items, k + 1, s, i + 1)

\* regex.search(s) in the place of regex.match(s): a match starting anywhere
RegexSearch(items, s) == \E i \in 1..(Len(s) + 1) : MatchAt(items, 1, s, i)

\* regex.match(s): a match starting at position 0 of s
RegexMatch(items, s) == MatchAt(items, 1, s, 1)

----------------------------------------------------------------------------
(* The functions main() calls, as operators on their arguments *)

\* get_zone_names without the test of the status
get_zone_names_of_any_status(result) ==
  LET filtered_list == SelectSeq(result.items, LAMBDA i : i.kind = "compute#zone")
  IN [k \in 1..Len(filtered_list) |-> filtered_list[k].name]

\* get_zone_names: the names of the zones of the answer that are UP
get_zone_names(result) ==
  LET filtered_list == SelectSeq(result.items,
                         LAMBDA i : i.status = "UP" /\ i.kind = "compute#zone")
  IN [k \in 1..Len(filtered_list) |-> filtered_list[k].name]

\* list_instances: the items of the answer, [] when it has none
list_instances(result) ==
  IF "items" \in DOMAIN result THEN result.items ELSE <<>>

\* obtain_instances, the list comprehension f of one zone
FilterInstances(rx, insts) ==
  SelectSeq(insts, LAMBDA x : /\ x.status = "RUNNING"
                              /\ x.kind = "compute#instance"
                              /\ RegexMatch(rx, x.name))

\* instance["networkInterfaces"][0]["accessConfigs"][0]["natIP"]:
\* the address, or the exception the lookup raises
NatIPLookup(instance) ==
  LET nis == instance.networkInterfaces IN
  IF Len(nis) = 0 THEN [exc |-> "IndexError", ip |-> <<>>]
  ELSE LET acs == nis[1].accessConfigs IN
    IF Len(acs) = 0 THEN [exc |-> "IndexError", ip |-> <<>>]
    ELSE IF "natIP" \notin DOMAIN acs[1] THEN [exc |-> "KeyError", ip |-> <<>>]
    ELSE [exc |-> "none", ip |-> acs[1].natIP]

RECURSIVE Join(_)
\* " ".join(proc_args)
Join(argv) ==
  IF Len(argv) = 0 THEN <<>>
  ELSE IF Len(argv) = 1 THEN argv[1]
  ELSE argv[1] \o <<" ">> \o Join(Tail(argv))

\* print_instance: "{0}: {1}".format(name, external_ip)
InstanceLine(name, ip) == name \o <<":", " ">> \o ip

\* print_subprocess: "Error running {0}: {1}\nCALL: {2}\n"
ErrorMessage(proc_name, error_str, proc_args) ==
  <<"Error running ", proc_name, ": ">> \o error_str
     \o <<"\nCALL: ">> \o Join(proc_args) \o <<"\n">>

\* print_subprocess: "[FROM VM]: {0}".format(proc.stderr.read().strip())
FromVM(stderr) == <<"[FROM VM]: ">> \o stderr

TracerouteArgs(ip) == <<(<<"traceroute">>), ip>>

ReverseArgs(name, project, zone, host) ==
  <<(<<"gcloud">>), <<"compute">>, <<"ssh">>, name, <<"--project">>, <<project>>,
    <<"--zone">>, <<zone>>, <<"--command">>, <<"traceroute ">> \o host>>

----------------------------------------------------------------------------
(* Inputs: command lines, and what the cloud and the tools answer *)

\* the command lines of the model; "(" is an invalid pattern
MainPatterns == {<<"a">>, <<"(">>}

ArgSpace(patterns) ==
  [print : BOOLEAN, project : {None, "demo"}, dig : BOOLEAN,
   reverse_traceroute : BOOLEAN, match_pattern : patterns]

NoArgs == [print |-> FALSE, project |-> None, dig |-> FALSE,
           reverse_traceroute |-> FALSE, match_pattern |-> <<>>]

\* zones.list answers: one to MaxZones zones, the i-th named ZoneNameAt(i)
\* (the API lists every zone of the platform to every project, so an answer
\* always carries "items")
ZoneListings ==
  UNION { { [items |-> [i \in 1..n |->
                [name |-> ZoneNameAt(i), status |-> f[i][1], kind |-> f[i][2]]]] :
            f \in [1..n -> ZoneStatuses \X ZoneKinds] } : n \in 1..MaxZones }

\* the instances of the orchestration runs: two that match "a" and have a
\* public address, one that matches and has none (in each shape), one whose
\* name holds an "a" later on, one that is not running
MainInstances ==
  { Instance(<<"a">>, "RUNNING", "compute#instance", WithNatIP),
    Instance(<<"a", "a">>, "RUNNING", "compute#instance", WithNatIP),
    Instance(<<"b", "a">>, "RUNNING", "compute#instance", WithNatIP),
    Instance(<<"a", "a">>, "TERMINATED", "compute#instance", NoInterface) }
  \cup { Instance(<<"a", "b">>, "RUNNING", "compute#instance", nis) :
           nis \in InterfaceShapes \ {WithNatIP} }

\* sequences of up to n instances of a set, names distinct (a zone holds no
\* two instances of one name)
InstanceLists(S, n) ==
  UNION { { l \in [1..m -> S] :
              \A i, j \in 1..m : l[i].name = l[j].name => i = j } : m \in 0..n }

\* instances.list answers: with items, or (no instance) without the key
InstanceAnswers(S, n) ==
  { [items |-> l] : l \in InstanceLists(S, n) \ {<<>>} }
    \cup { [kind |-> "compute#instanceList"] }

RECURSIVE Returned(_)
\* instances the API has returned so far
Returned(calls) ==
  IF calls = <<>> THEN 0 ELSE calls[1].returned + Returned(Tail(calls))

APICall(method, zone, n) == [method |-> method, zone |-> zone, returned |-> n]

Proc(cmd, zone, i) == [cmd |-> cmd, zone |-> zone, inst |-> i]

\* what the tools print
DigOutput == <<(<<"o-o.myaddr.l.google.com. TXT">>)>>
Hops == <<(<<"1  gateway">>)>>
Unreachable == <<"unreachable">>
NoSuchFile == <<"[Errno 2] No such file or directory">>

----------------------------------------------------------------------------
(* The state after interpreter start-up, before main() runs *)

Init ==
  /\ pc = "parse_args"
  /\ args = NoArgs
  /\ current_project = None
  /\ zones = [items |-> <<>>]
  /\ zone_names = <<>>
  /\ regex = None
  /\ zi = 1
  /\ instances = <<>>
  /\ zone_instances = <<>>
  /\ pending = {}
  /\ zone_name = None
  /\ ii = 1
  /\ external_ip = None
  /\ self_ip = None
  /\ apiCalls = <<>>
  /\ procs = <<>>
  /\ running = {}
  /\ printed = <<>>
  /\ failures = {}
  /\ error = NoError
  /\ exitCode = NoExit

\* an exception nothing catches: traceback, exit status 1
Raise(exc, at) ==
  /\ pc' = "aborted"
  /\ error' = [exc |-> exc, at |-> at]
  /\ exitCode' = 1
  /\ printed' = <<(<<"Traceback (most recent call last): ", exc>>)>>

\* main() with the DNS lookup moved behind the project
SuccessorWithLateDig(at, a) ==
  CASE at = "parse_args" -> "resolve_project"
    [] at = "resolve_project" -> IF a.dig THEN "print_dig" ELSE "get_gcloud_api"
    [] at = "print_dig" -> "get_gcloud_api"
    [] at = "get_gcloud_api" -> "obtain_instances"
    [] at = "obtain_instances" -> "zone_loop"

\* main(), lines 293-308: the statement that follows `at`
Successor(at, a) ==
  CASE at = "parse_args" -> IF a.dig THEN "print_dig" ELSE "resolve_project"
    [] at = "print_dig" -> "resolve_project"
    [] at = "resolve_project" -> "get_gcloud_api"
    [] at = "get_gcloud_api" -> "obtain_instances"
    [] at = "obtain_instances" -> "zone_loop"

----------------------------------------------------------------------------
(* main(): argument parsing, the DNS lookup, the project *)

\* line 293: parse_args(); argparse exits with status 2 on a bad command line
ParseArgs ==
  /\ pc = "parse_args"
  /\ \/ /\ \E a \in ArgSpace(MainPatterns) :
             /\ args' = a
             /\ pc' = Successor("parse_args", a)
        /\ printed' = <<>>
        /\ UNCHANGED <<error, exitCode>>
     \/ /\ pc' = "aborted"
        /\ error' = [exc |-> "SystemExit", at |-> "parse_args"]
        /\ exitCode' = 2
        /\ printed' = <<(<<"usage: ">>)>>
        /\ UNCHANGED args
  /\ UNCHANGED <<current_project, zones, zone_names, regex, zi, instances,
                 zone_instances, pending, zone_name, ii, external_ip, self_ip,
                 apiCalls, procs, running, failures>>

\* lines 169-173: print_dig starts dig; Popen raises OSError when it cannot
PrintDig ==
  /\ pc = "print_dig"
  /\ procs' = Append(procs, Proc("dig -t txt", None, 0))
  /\ \/ /\ running' = running \cup {Proc("dig -t txt", None, 0)}
        /\ pc' = "print_dig_read"
        /\ printed' = <<(<<"Running \"dig -t txt o-o.myaddr.l.google.com @ns1.google.com\"">>)>>
        /\ UNCHANGED <<error, exitCode>>
     \/ /\ Raise("OSError", "print_dig")
        /\ UNCHANGED running
  /\ UNCHANGED <<args, current_project, zones, zone_names, regex, zi, instances,
                 zone_instances, pending, zone_name, ii, external_ip, self_ip,
                 apiCalls, failures>>

\* lines 174-176: relay dig's output (stderr merged in) to its end; the exit
\* status is not looked at
PrintDigRead ==
  /\ pc = "print_dig_read"
  /\ running' = running \ {Proc("dig -t txt", None, 0)}
  /\ \/ printed' = DigOutput \o <<(<<>>)>>
     \/ printed' = <<(<<"dig: couldn't get address for 'ns1.google.com'">>), <<>> >>
  /\ pc' = Successor("print_dig", args)
  /\ UNCHANGED <<args, current_project, zones, zone_names, regex, zi, instances,
                 zone_instances, pending, zone_name, ii, external_ip, self_ip,
                 apiCalls, procs, failures, error, exitCode>>

\* lines 298-303, 114-123: the project given, or gcloud's default project;
\* check_output raises when gcloud fails or is missing
ResolveProject ==
  /\ pc = "resolve_project"
  /\ \/ /\ args.project # None
        /\ current_project' = args.project
        /\ printed' = <<(<<"Project is: ", args.project>>),
                        <<"#################################">> >>
        /\ pc' = Successor("resolve_project", args)
        /\ UNCHANGED <<procs, error, exitCode>>
     \/ /\ args.project = None
        /\ procs' = Append(procs, Proc("gcloud config", None, 0))
        /\ \/ /\ current_project' = "default"
              /\ printed' = <<(<<"Project is: ", "default">>),
                              <<"#################################">> >>
              /\ pc' = Successor("resolve_project", args)
              /\ UNCHANGED <<error, exitCode>>
           \/ /\ Raise("CalledProcessError", "obtain_default_project")
              /\ UNCHANGED current_project
  /\ UNCHANGED <<args, zones, zone_names, regex, zi, instances,
                 zone_instances, pending, zone_name, ii, external_ip, self_ip,
                 apiCalls, running, failures>>

\* lines 305-306, 92-100: the authenticated API client, or no credentials
GetGcloudApi ==
  /\ pc = "get_gcloud_api"
  /\ \/ /\ pc' = Successor("get_gcloud_api", args)
        /\ printed' = <<(<<"Obtaining instances...">>)>>
        /\ UNCHANGED <<error, exitCode>>
     \/ Raise("ApplicationDefaultCredentialsError", "get_gcloud_api")
  /\ UNCHANGED <<args, current_project, zones, zone_names, regex, zi, instances,
                 zone_instances, pending, zone_name, ii, external_ip, self_ip,
                 apiCalls, procs, running, failures>>

----------------------------------------------------------------------------
(* obtain_instances *)

\* line 201, 144-159: zones.list, and the names of the zones that are UP
GetZoneNames ==
  /\ pc = "obtain_instances"
  /\ apiCalls' = Append(apiCalls, APICall("zones.list", None, 0))
  /\ \/ /\ \E result \in ZoneListings :
             /\ zones' = result
             /\ zone_names' = get_zone_names(result)
        /\ pc' = "re_compile"
        /\ printed' = <<>>
        /\ UNCHANGED <<error, exitCode>>
     \/ /\ Raise("HttpError", "get_zone_names")
        /\ UNCHANGED <<zones, zone_names>>
  /\ UNCHANGED <<args, current_project, regex, zi, instances,
                 zone_instances, pending, zone_name, ii, external_ip, self_ip,
                 procs, running, failures>>

\* lines 202-204: re.compile(match_pattern), then the empty dict
CompilePattern ==
  /\ pc = "re_compile"
  /\ LET compiled == Compile(args.match_pattern) IN
       \/ /\ compiled.ok
          /\ regex' = compiled.items
          /\ zone_instances' = <<>>
          /\ zi' = 1
          /\ pc' = "list_instances"
          /\ printed' = <<>>
          /\ UNCHANGED <<error, exitCode>>
       \/ /\ ~compiled.ok
          /\ Raise("re.error", "obtain_instances")
          /\ UNCHANGED <<regex, zone_instances, zi>>
  /\ UNCHANGED <<args, current_project, zones, zone_names, instances,
                 pending, zone_name, ii, external_ip, self_ip,
                 apiCalls, procs, running, failures>>

\* d[k] = v only for a list v that is not empty
PutUnlessEmpty(d, k, v) ==
  IF v = <<>> THEN d
  ELSE [x \in DOMAIN d \cup {k} |-> IF x = k THEN v ELSE d[x]]

\* d[k] = v on a dict
Put(d, k, v) == [x \in DOMAIN d \cup {k} |-> IF x = k THEN v ELSE d[x]]

\* lines 205-213: one turn of the loop over zone_names, the instances of the
\* answers drawn from S
ListInstancesFrom(S) ==
  /\ pc = "list_instances"
  /\ zi <= Len(zone_names)
  /\ LET zn == zone_names[zi] IN
       \/ /\ \E result \in InstanceAnswers(S, MaxInstances - Returned(apiCalls)) :
               LET found == list_instances(result) IN
                 /\ apiCalls' = Append(apiCalls,
                                       APICall("instances.list", zn, Len(found)))
                 /\ instances' = found
                 /\ zone_instances' = Put(Put(zone_instances, zn, <<>>), zn,
                                          FilterInstances(regex, found))
          /\ zi' = zi + 1
          /\ printed' = <<>>
          /\ UNCHANGED <<pc, error, exitCode>>
       \/ /\ apiCalls' = Append(apiCalls, APICall("instances.list", zn, 0))
          /\ zone_instances' = Put(zone_instances, zn, <<>>)
          /\ Raise("HttpError", "list_instances")
          /\ UNCHANGED <<instances, zi>>
  /\ UNCHANGED <<args, current_project, zones, zone_names, regex,
                 pending, zone_name, ii, external_ip, self_ip,
                 procs, running, failures>>

ListInstances == ListInstancesFrom(MainInstances)

\* line 214 and line 310: return zone_instances; main starts its loop over it
ReturnInstances ==
  /\ pc = "list_instances"
  /\ zi > Len(zone_names)
  /\ instances' = <<>>
  /\ pending' = DOMAIN zone_instances
  /\ pc' = Successor("obtain_instances", args)
  /\ printed' = <<>>
  /\ UNCHANGED <<args, current_project, zones, zone_names, regex, zi,
                 zone_instances, zone_name, ii, external_ip, self_ip,
                 apiCalls, procs, running, failures, error, exitCode>>

----------------------------------------------------------------------------
(* main(): the report, zone by zone and instance by instance *)

\* the instance the inner loop is at
Current == zone_instances[zone_name][ii]

\* lines 310-317: the next key of the dict (a dict has no order), skipped
\* when its list is empty; the run ends when no key is left
ZoneLoop ==
  /\ pc = "zone_loop"
  /\ \/ /\ pending = {}
        /\ pc' = "done"
        /\ exitCode' = 0
        /\ printed' = <<>>
        /\ UNCHANGED <<pending, zone_name, ii>>
     \/ /\ \E zn \in pending :
             /\ pending' = pending \ {zn}
             /\ zone_name' = zn
             /\ IF Len(zone_instances[zn]) = 0
                  THEN /\ printed' = <<>>
                       /\ UNCHANGED <<pc, ii>>
                  ELSE /\ printed' = << <<>>, <<"Instances in ", zn>>,
                                       <<"----------------------------------------">> >>
                       /\ ii' = 1
                       /\ pc' = "instance_loop"
        /\ UNCHANGED exitCode
  /\ UNCHANGED <<args, current_project, zones, zone_names, regex, zi, instances,
                 zone_instances, external_ip, self_ip,
                 apiCalls, procs, running, failures, error>>

\* lines 319-324 with 284-289 and 270-271: the next instance of the zone.
\* With --print its line; otherwise traceroute_instance up to the address
\* lookup.  The lookup raises when the instance has no natIP.
InstanceLoop ==
  /\ pc = "instance_loop"
  /\ \/ /\ ii > Len(zone_instances[zone_name])
        /\ pc' = "zone_loop"
        /\ printed' = <<>>
        /\ UNCHANGED <<ii, external_ip, error, exitCode>>
     \/ /\ ii <= Len(zone_instances[zone_name])
        /\ LET found == NatIPLookup(Current) IN
             \/ /\ found.exc # "none"
                /\ Raise(found.exc,
                         IF args.print THEN "print_instance" ELSE "traceroute_instance")
                /\ UNCHANGED <<ii, external_ip>>
             \/ /\ found.exc = "none"
                /\ args.print
                /\ printed' = <<InstanceLine(Current.name, found.ip)>>
                /\ ii' = ii + 1
                /\ UNCHANGED <<pc, external_ip, error, exitCode>>
             \/ /\ found.exc = "none"
                /\ ~args.print
                /\ external_ip' = found.ip
                /\ pc' = "obtain_self_ip"
                /\ printed' = <<>>
                /\ UNCHANGED <<ii, error, exitCode>>
  /\ UNCHANGED <<args, current_project, zones, zone_names, regex, zi, instances,
                 zone_instances, pending, zone_name, self_ip,
                 apiCalls, procs, running, failures>>

\* lines 272-273, 103-111: the host's public address from OpenDNS, for
\* every instance; check_output raises when dig fails or is missing
ObtainSelfIp ==
  /\ pc = "obtain_self_ip"
  /\ procs' = Append(procs, Proc("dig myip", zone_name, ii))
  /\ \/ /\ self_ip' = HostAddress
        /\ printed' = <<(<<"Traceroute TO ">> \o Current.name \o <<": ">>
                           \o HostAddress \o <<" -> ">> \o external_ip)>>
        /\ pc' = "traceroute"
        /\ UNCHANGED <<error, exitCode>>
     \/ /\ Raise("CalledProcessError", "obtain_self_ip")
        /\ UNCHANGED self_ip
  /\ UNCHANGED <<args, current_project, zones, zone_names, regex, zi, instances,
                 zone_instances, pending, zone_name, ii, external_ip,
                 apiCalls, running, failures>>

\* where the run goes on after a print_subprocess call
GoOn(after) ==
  /\ pc' = after
  /\ ii' = IF after = "instance_loop" THEN ii + 1 ELSE ii

\* lines 235-239 and 248-251: print_subprocess starts the process; when
\* Popen raises OSError the error is printed and the call returns
Popen(proc_name, cmd, proc_args, waiting, after) ==
  /\ procs' = Append(procs, Proc(cmd, zone_name, ii))
  /\ \/ /\ running' = running \cup {Proc(cmd, zone_name, ii)}
        /\ pc' = waiting
        /\ printed' = <<>>
        /\ UNCHANGED <<ii, failures>>
     \/ /\ printed' = <<ErrorMessage(proc_name, NoSuchFile, proc_args)>>
        /\ failures' = failures \cup {proc_name}
        /\ GoOn(after)
        /\ UNCHANGED running

\* print_subprocess letting the error of a failed process out of
\* traceroute_instance: the rest of the instance is skipped
WaitLeavingOnError(proc_name, cmd, proc_args, after) ==
  /\ running' = running \ {Proc(cmd, zone_name, ii)}
  /\ \/ /\ printed' = Hops \o <<(<<>>)>>
        /\ UNCHANGED failures
        /\ GoOn(after)
     \/ /\ printed' = <<ErrorMessage(proc_name, FromVM(Unreachable), proc_args)>>
        /\ failures' = failures \cup {proc_name}
        /\ GoOn("instance_loop")

\* lines 240-251: print_subprocess relays the output to its end and waits;
\* a non-zero exit status is printed with the text of stderr
Wait(proc_name, cmd, proc_args, after) ==
  /\ running' = running \ {Proc(cmd, zone_name, ii)}
  /\ \/ /\ printed' = Hops \o <<(<<>>)>>
        /\ UNCHANGED failures
     \/ /\ printed' = <<ErrorMessage(proc_name, FromVM(Unreachable), proc_args)>>
        /\ failures' = failures \cup {proc_name}
  /\ GoOn(after)

\* line 276: after the traceroute to the instance
AfterForward(a) ==
  IF a.reverse_traceroute THEN "reverse" ELSE "instance_loop"

\* line 274: print_subprocess("Traceroute", ["traceroute", external_ip])
Traceroute ==
  /\ pc = "traceroute"
  /\ Popen("Traceroute", "traceroute", TracerouteArgs(external_ip),
           "traceroute_wait", AfterForward(args))
  /\ UNCHANGED <<args, current_project, zones, zone_names, regex, zi, instances,
                 zone_instances, pending, zone_name, external_ip, self_ip,
                 apiCalls, error, exitCode>>

TracerouteWait ==
  /\ pc = "traceroute_wait"
  /\ Wait("Traceroute", "traceroute", TracerouteArgs(external_ip),
          AfterForward(args))
  /\ UNCHANGED <<args, current_project, zones, zone_names, regex, zi, instances,
                 zone_instances, pending, zone_name, external_ip, self_ip,
                 apiCalls, procs, error, exitCode>>

\* lines 277-281: the traceroute from the instance, through gcloud compute ssh
Reverse ==
  /\ pc = "reverse"
  /\ Popen("Reverse Traceroute", "gcloud compute ssh",
           ReverseArgs(Current.name, current_project, zone_name, self_ip),
           "reverse_wait", "instance_loop")
  /\ UNCHANGED <<args, current_project, zones, zone_names, regex, zi, instances,
                 zone_instances, pending, zone_name, external_ip, self_ip,
                 apiCalls, error, exitCode>>

ReverseWait ==
  /\ pc = "reverse_wait"
  /\ Wait("Reverse Traceroute", "gcloud compute ssh",
          ReverseArgs(Current.name, current_project, zone_name, self_ip),
          "instance_loop")
  /\ UNCHANGED <<args, current_project, zones, zone_names, regex, zi, instances,
                 zone_instances, pending, zone_name, external_ip, self_ip,
                 apiCalls, procs, error, exitCode>>

----------------------------------------------------------------------------
(* The run of main() *)

Next ==
  \/ ParseArgs
  \/ PrintDig
  \/ PrintDigRead
  \/ ResolveProject
  \/ GetGcloudApi
  \/ GetZoneNames
  \/ CompilePattern
  \/ ListInstances
  \/ ReturnInstances
  \/ ZoneLoop
  \/ InstanceLoop
  \/ ObtainSelfIp
  \/ Traceroute
  \/ TracerouteWait
  \/ Reverse
  \/ ReverseWait

Spec == Init /\ [][Next]_vars

----------------------------------------------------------------------------
(* obtain_instances on its own: any pattern of the dialect, any instance   *)
(* records, one zone that is UP                                            *)

MatcherPatterns ==
  { <<>>, <<"a">>, <<"b">>, <<"a", "b">>, <<"a", "$">>, <<"^", "a">>,
    <<".", "*", "b">>, <<"b", "*", "a">>, <<"a", "*", "$">>,
    <<"(">>, <<"a", ")">>, <<"*", "a">>, <<"a", "*", "*">> }

MatcherNames == { <<"a">>, <<"b">>, <<"a", "b">>, <<"b", "a">>, <<"a", "a">> }

MatcherInstances ==
  { Instance(n, s, k, WithNatIP) :
      n \in MatcherNames, s \in InstanceStatuses, k \in InstanceKinds }

\* the state in which main() has called obtain_instances and zones.list has
\* answered with one zone that is UP
InitMatcher ==
  /\ pc = "re_compile"
  /\ args \in { a \in ArgSpace(MatcherPatterns) :
                  ~a.print /\ ~a.dig /\ ~a.reverse_traceroute /\ a.project = "demo" }
  /\ current_project = "demo"
  /\ zones = [items |-> <<[name |-> ZoneNameAt(1), status |-> "UP",
                           kind |-> "compute#zone"]>>]
  /\ zone_names = get_zone_names(zones)
  /\ regex = None
  /\ zi = 1
  /\ instances = <<>>
  /\ zone_instances = <<>>
  /\ pending = {}
  /\ zone_name = None
  /\ ii = 1
  /\ external_ip = None
  /\ self_ip = None
  /\ apiCalls = <<APICall("zones.list", None, 0)>>
  /\ procs = <<>>
  /\ running = {}
  /\ printed = <<>>
  /\ failures = {}
  /\ error = NoError
  /\ exitCode = NoExit

ListInstancesAny == ListInstancesFrom(MatcherInstances)

NextMatcher ==
  \/ CompilePattern
  \/ ListInstancesAny
  \/ ReturnInstances

SpecMatcher == InitMatcher /\ [][NextMatcher]_vars

----------------------------------------------------------------------------
(* Vocabulary of the properties *)

RECURSIVE Denotes(_, _, _, _, _)
\* the items from the k-th on describe exactly the characters i..j-1 of s
Denotes(items, k, s, i, j) ==
  IF k > Len(items) THEN i = j
  ELSE LET it == items[k] IN
    CASE it.atom = "^" -> i = 1 /\ Denotes(items, k + 1, s, i, j)
      [] it.atom = "$" -> i = Len(s) + 1 /\ Denotes(items, k + 1, s, i, j)
      [] OTHER ->
           IF it.star
             THEN \E m \in i..j :
                    /\ \A q \in i..(m - 1) : it.atom = "." \/ s[q] = it.atom
                    /\ Denotes(items, k + 1, s, m, j)
             ELSE /\ i < j
                  /\ (it.atom = "." \/ s[i] = it.atom)
                  /\ Denotes(items, k + 1, s, i + 1, j)

\* the pattern describes some prefix name[0:j] of the name
MatchesFromStart(items, name) ==
  \E j \in 1..(Len(name) + 1) : Denotes(items, 1, name, 1, j)

\* the pattern describes name[i:j] for some i > 0 and no prefix of the name
MatchesOnlyLater(items, name) ==
  /\ ~MatchesFromStart(items, name)
  /\ \E i \in 2..(Len(name) + 1) : \E j \in i..(Len(name) + 1) :
       Denotes(items, 1, SubSeq(name, i, Len(name)), 1, j - i + 1)

\* position of x in the sequence l (0 when absent)
IndexIn(l, x) == IF \E i \in 1..Len(l) : l[i] = x
                   THEN CHOOSE i \in 1..Len(l) : l[i] = x ELSE 0

UpZoneNames == { zones.items[i].name : i \in { k \in 1..Len(zones.items) :
                                                 zones.items[k].status = "UP" } }

OtherZoneNames == { zones.items[i].name : i \in { k \in 1..Len(zones.items) :
                                                    zones.items[k].status # "UP" } }

QueriedZones == { apiCalls[k].zone : k \in { n \in 1..Len(apiCalls) :
                                               apiCalls[n].method = "instances.list" } }

DiagnosticCommands == {"traceroute", "dig myip", "gcloud compute ssh"}

Diagnostics == { k \in 1..Len(procs) : procs[k].cmd \in DiagnosticCommands }

ReportPCs == {"zone_loop", "instance_loop", "obtain_self_ip", "traceroute",
              "traceroute_wait", "reverse", "reverse_wait"}

\* obtain_instances has returned to main()
Discovered ==
  \/ pc \in ReportPCs \cup {"done"}
  \/ pc = "aborted" /\ error.at \in {"print_instance", "traceroute_instance",
                                      "obtain_self_ip"}

\* the inner loop of main() has dealt with the i-th instance of zone zn
Visited(zn, i) ==
  /\ zn \notin pending
  /\ zn = zone_name => i < ii \/ pc = "zone_loop" \/ pc = "done"

----------------------------------------------------------------------------
(* C1 *)

\* the zone of the latest instances.list answer
LatestZone == zone_names[zi - 1]

IncludedByClaim(x) ==
  /\ x.status = "RUNNING"
  /\ x.kind = "compute#instance"
  /\ MatchesFromStart(regex, x.name)

\* C1: an instance of the answer of instances.list for a zone is in the
\* zone's result list if and only if it is RUNNING, its kind is
\* compute#instance and the pattern describes a prefix of its name; the
\* result list holds nothing else, and its instances stand in the order of
\* the answer.
C1_IncludedIffRunningInstanceMatchedFromStart ==
  (pc = "list_instances" /\ zi > 1) =>
    LET result == zone_instances[LatestZone] IN
      /\ \A i \in 1..Len(instances) :
           (\E j \in 1..Len(result) : result[j] = instances[i])
             <=> IncludedByClaim(instances[i])
      /\ \A j \in 1..Len(result) : IndexIn(instances, result[j]) > 0
      /\ \A j1, j2 \in 1..Len(result) :
           j1 < j2 => IndexIn(instances, result[j1]) < IndexIn(instances, result[j2])

\* an answer of two running compute instances: the pattern describes the
\* name of the first only from a later position, so it is left out, and the
\* second is kept
C1_Witness ==
  /\ pc = "list_instances" /\ zi > 1
  /\ Len(instances) = 2
  /\ instances[1].status = "RUNNING"
  /\ instances[1].kind = "compute#instance"
  /\ MatchesOnlyLater(regex, instances[1].name)
  /\ zone_instances[LatestZone] = <<instances[2]>>

----------------------------------------------------------------------------
(* C2 *)

\* C2: a run whose match pattern is no valid regular expression issues no
\* compute API call (neither zones.list nor instances.list).
C2_InvalidPatternIssuesNoApiCall ==
  (pc # "parse_args" /\ ~ValidPattern(args.match_pattern)) => apiCalls = <<>>

----------------------------------------------------------------------------
(* C3 *)

\* C3: instances.list is issued only for zones whose status is UP; a zone of
\* any other status is never queried, is no key of the result and is in no
\* report.
C3_OnlyUpZonesQueried ==
  /\ QueriedZones \subseteq UpZoneNames
  /\ DOMAIN zone_instances \subseteq UpZoneNames
  /\ \A zn \in OtherZoneNames :
       /\ zn \notin QueriedZones
       /\ zn \notin DOMAIN zone_instances
       /\ zn \notin pending
       /\ zone_name # zn
       /\ \A k \in 1..Len(procs) : procs[k].zone # zn
       /\ \A k \in 1..Len(printed) : printed[k] # <<"Instances in ", zn>>

\* the run is over, a zone that is not UP was listed beside one that is, and
\* the instances of the latter were diagnosed
C3_Witness ==
  /\ pc = "done"
  /\ OtherZoneNames # {}
  /\ QueriedZones # {}
  /\ Diagnostics # {}

----------------------------------------------------------------------------
(* C4 *)

\* C4: once obtain_instances has returned, the keys of the result are
\* exactly the zones that were queried, which are the zones that are UP (of
\* kind compute#zone); a zone whose filtered list is empty is a key all the
\* same.  With no zone UP the result is empty, no diagnostic is invoked and
\* the run does not fail: it ends with exit status 0.
C4_KeysAreTheQueriedUpZones ==
  Discovered =>
    /\ DOMAIN zone_instances = QueriedZones
    /\ DOMAIN zone_instances =
         { zones.items[i].name : i \in { k \in 1..Len(zones.items) :
               /\ zones.items[k].status = "UP"
               /\ zones.items[k].kind = "compute#zone" } }
    /\ \A k \in 1..Len(apiCalls) :
         (apiCalls[k].method = "instances.list" /\ apiCalls[k].returned = 0)
           => zone_instances[apiCalls[k].zone] = <<>>
    /\ UpZoneNames = {} =>
         /\ DOMAIN zone_instances = {}
         /\ pending = {}
         /\ Diagnostics = {}
         /\ pc \in {"zone_loop", "done"}
         /\ exitCode \in {NoExit, 0}
    /\ pc = "done" => exitCode = 0

\* the run is over and a zone that was queried has an empty list
C4_Witness ==
  /\ pc = "done"
  /\ exitCode = 0
  /\ \E zn \in DOMAIN zone_instances : zone_instances[zn] = <<>>
  /\ \E zn \in DOMAIN zone_instances : zone_instances[zn] # <<>>

----------------------------------------------------------------------------
(* C5 *)

\* C5: for a matched instance without a natIP the runner invokes no
\* traceroute and the run goes on with the instances and zones that remain:
\* the address lookup of traceroute_instance ends no run.
C5_NoPublicAddressIsNotFatal ==
  /\ \A k \in 1..Len(procs) :
       procs[k].cmd = "traceroute" =>
         NatIPLookup(zone_instances[procs[k].zone][procs[k].inst]).exc = "none"
  /\ ~(pc = "aborted" /\ error.at = "traceroute_instance")

----------------------------------------------------------------------------
(* C6 *)

\* C6: after print_subprocess has reported the failure of a traceroute or of
\* a remote traceroute, every matched instance that remains is still dealt
\* with and the run ends with exit status 0: it does not end otherwise.
C6_SubprocessFailureIsNotFatal ==
  failures # {} =>
    /\ pc # "aborted"
    /\ exitCode \in {NoExit, 0}
    /\ pc = "done" =>
         \A zn \in DOMAIN zone_instances :
           \A i \in 1..Len(zone_instances[zn]) : Visited(zn, i)

----------------------------------------------------------------------------
(* C7 *)

\* C7: with --print no traceroute, no lookup of the host's address and no
\* remote command is invoked, whatever --reverse_traceroute says, and when
\* the run has ended every matched instance has had its line.
C7_PrintListsEveryMatchedInstance ==
  (args.print /\ Discovered) =>
    /\ Diagnostics = {}
    /\ running = {}
    /\ pc \in {"done", "aborted"} =>
         \A zn \in DOMAIN zone_instances :
           \A i \in 1..Len(zone_instances[zn]) : Visited(zn, i)

----------------------------------------------------------------------------
(* C9 *)

DigLookups == { k \in 1..Len(procs) : procs[k].cmd = "dig -t txt" }

\* C9: with --dig the DNS TXT query is run once in a run, never once more,
\* and its failure ends no run.
C9_DigOnceAndNeverFatal ==
  /\ Cardinality(DigLookups) <= 1
  /\ (args.dig /\ pc \notin {"parse_args", "print_dig"})
       => Cardinality(DigLookups) = 1
  /\ ~args.dig => DigLookups = {}
  /\ ~(pc = "aborted" /\ error.at = "print_dig")

----------------------------------------------------------------------------
(* C8 *)

DiscoverPCs == {"get_gcloud_api", "obtain_instances", "re_compile", "list_instances"}

\* the states of the orchestrator in the order main() goes through them
Phase(p) ==
  CASE p = "parse_args" -> 0
    [] p \in {"print_dig", "print_dig_read"} -> 1
    [] p = "resolve_project" -> 2
    [] p \in DiscoverPCs -> 3
    [] p \in ReportPCs -> 4
    [] p \in {"done", "aborted"} -> 5

\* the same with the order the claim gives: the project, then the lookup
PhaseAsClaimed(p) ==
  CASE p = "parse_args" -> 0
    [] p = "resolve_project" -> 1
    [] p \in {"print_dig", "print_dig_read"} -> 2
    [] p \in DiscoverPCs -> 3
    [] p \in ReportPCs -> 4
    [] p \in {"done", "aborted"} -> 5

PhaseFacts ==
  /\ pc \in {"print_dig", "print_dig_read"} =>
       /\ args.dig
       /\ current_project = None
       /\ apiCalls = <<>>
  /\ DigLookups \subseteq {1}
  /\ pc = "resolve_project" =>
       /\ current_project = None
       /\ args.dig => DigLookups = {1}
       /\ apiCalls = <<>>
  /\ pc \in DiscoverPCs =>
       /\ current_project # None
       /\ Diagnostics = {}
       /\ pending = {}
       /\ zone_name = None
  /\ pc \in ReportPCs \cup {"done"} =>
       /\ zi = Len(zone_names) + 1
       /\ QueriedZones = { zone_names[k] : k \in 1..Len(zone_names) }
  /\ (Diagnostics # {} \/ zone_name # None) => Discovered

\* C8 (as amended): a run goes through ParseArgs, the optional DNS lookup,
\* ResolveProject, Discover, ReportPerZone and Done in this order and never
\* back (it may end early, with an error); the lookup runs before the project
\* is resolved and before any API call, and no zone is reported and no
\* diagnostic runs before every zone that is UP has been queried.
C8_PhasesInOrderDigFirst ==
  [][Phase(pc') >= Phase(pc) /\ PhaseFacts']_vars

\* C8 (as claimed): the same order with the DNS lookup after the project.
C8_PhasesInOrderAsClaimed ==
  [][PhaseAsClaimed(pc') >= PhaseAsClaimed(pc)]_vars

\* a run with --dig and without --project that went through every state and
\* diagnosed an instance: the lookup is the first process, gcloud the second
C8_Witness ==
  /\ pc = "done"
  /\ args.dig
  /\ Len(procs) > 2
  /\ procs[1].cmd = "dig -t txt"
  /\ procs[2].cmd = "gcloud config"
  /\ Diagnostics # {}

----------------------------------------------------------------------------
(* C10 *)

SameInstance(p, q) == p.zone = q.zone /\ p.inst = q.inst

ProcessFacts ==
  /\ Cardinality(running) <= 1
  /\ \A k \in 1..Len(procs) :
       procs[k].cmd = "gcloud compute ssh" =>
         /\ args.reverse_traceroute
         /\ ~args.print
         /\ k > 1
         /\ procs[k - 1].cmd = "traceroute"
         /\ SameInstance(procs[k - 1], procs[k])
         /\ procs[k - 1] \notin running
  /\ \A k \in 1..Len(procs) :
       procs[k].cmd = "traceroute" =>
         /\ ~args.print
         /\ k > 1
         /\ procs[k - 1].cmd = "dig myip"
         /\ SameInstance(procs[k - 1], procs[k])
         /\ args.reverse_traceroute =>
              IF k < Len(procs)
                THEN /\ procs[k + 1].cmd = "gcloud compute ssh"
                     /\ SameInstance(procs[k], procs[k + 1])
                ELSE pc \in {"traceroute_wait", "reverse"}

====
